---- MODULE Spec2Model ----
(***************************************************************************)
(* Model of the template-driven scraping server (server.js, kept as        *)
(* src/unnamed/part_000): the POST /scrape handler, the in-page extraction *)
(* routine handed to page.evaluate, the pagination loop and the CSV save.  *)
(*                                                                         *)
(* JavaScript strings are modelled as sequences of tokens, so that         *)
(* String.prototype.replace, template-literal concatenation and URL        *)
(* resolution are computed and not assumed.  A rendered document is a      *)
(* sequence of elements in document order, each naming its parent.         *)
(*                                                                         *)
(* The fixed-schema scraper (src/scraper.js) is a program of its own, with *)
(* its own variables and its own specification, SpecScraper.               *)
(***************************************************************************)
EXTENDS Integers, Sequences, FiniteSets, TLC

(***************************************************************************)
(* Bounds of the model.                                                    *)
(***************************************************************************)
\* templates per request body
MaxTemplates == 2
\* largest paginationLimit a request body carries
MaxLimit == 2
\* page.goto calls explored per template traversal (caps the unbounded loop)
MaxNav == 3

(***************************************************************************)
(* JavaScript values that may be a string or null.                         *)
(***************************************************************************)
Str(s) == [t |-> "string", v |-> s]
Null == [t |-> "null", v |-> << >>]
\* truthiness of a string-or-null value: null and "" are falsy
Truthy(x) == x.t = "string" /\ x.v # << >>

(***************************************************************************)
(* Strings.                                                                *)
(***************************************************************************)
Punct == {".", "#", "[", "("}

\* index of the first occurrence of token c in s, 0 when there is none
FirstIndex(s, c) ==
  IF \E i \in 1..Len(s) : s[i] = c
  THEN CHOOSE i \in 1..Len(s) : s[i] = c /\ \A j \in 1..(i - 1) : s[j] # c
  ELSE 0

\* s.replace(c, ''): the first occurrence of c is removed, wherever it is
Replace(s, c) ==
  LET i == FirstIndex(s, c)
  IN IF i = 0 THEN s ELSE SubSeq(s, 1, i - 1) \o SubSeq(s, i + 1, Len(s))

\* lower-casing, as the 'i' flag of RegExp compares
Lower(w) ==
  CASE w = "Next" -> "next"
    [] w = "NEXT" -> "next"
    [] w = "Alpha" -> "alpha"
    [] OTHER -> w

(***************************************************************************)
(* The rendering collaborator's document queries.                          *)
(***************************************************************************)
\* a compound CSS selector  tag? ( '.' name | '#' name )*  parses; anything
\* else makes querySelector / querySelectorAll / page.$ throw a SyntaxError
CssValid(s) ==
  /\ Len(s) > 0
  /\ \A i \in 1..Len(s) :
       IF s[i] \in {".", "#"}
       THEN i < Len(s) /\ s[i + 1] \notin Punct
       ELSE s[i] \notin Punct /\ (i = 1 \/ s[i - 1] \in {".", "#"})

CssMatches(s, el) ==
  \A i \in 1..Len(s) :
    s[i] \notin Punct =>
      IF i = 1 THEN el.tag = s[1]
      ELSE IF s[i - 1] = "." THEN s[i] \in el.cls
      ELSE el.id = s[i]

\* new RegExp(selector, 'i') throws a SyntaxError on an unbalanced group
RegexValid(s) == \A i \in 1..Len(s) : s[i] \notin {"[", "("}

\* regex.test(text): a word pattern is searched in the text, ignoring case;
\* the empty pattern matches every text
RegexTest(s, text) ==
  \/ s = << >>
  \/ \E i \in 1..Len(text) : \E k \in 1..Len(s) :
       s[k] # "." /\ Lower(text[i]) = Lower(s[k])

\* element j lies under element i (i = 0 is the document itself)
RECURSIVE Under(_, _, _)
Under(doc, j, i) ==
  IF j = 0 THEN FALSE
  ELSE IF doc[j].parent = i THEN TRUE
  ELSE Under(doc, doc[j].parent, i)

\* the class name getElementsByClassName is asked for: a one-token string is
\* that class; any other string names a class no fixture element carries
HasClassNamed(s, el) == Len(s) = 1 /\ s[1] \in el.cls

\* the elements under root among hits, in document order
Matching(doc, root, hits) ==
  LET Idx == {j \in hits : Under(doc, j, root)}
      RECURSIVE Sorted(_)
      Sorted(S) == IF S = {} THEN << >>
                   ELSE LET m == CHOOSE x \in S : \A y \in S : x <= y
                        IN <<m>> \o Sorted(S \ {m})
  IN Sorted(Idx)

\* the elements of the document that satisfy a CSS selector, carry a class,
\* have a text the pattern matches
CssHits(doc, s) == {j \in DOMAIN doc : CssMatches(s, doc[j])}
ClassHits(doc, s) == {j \in DOMAIN doc : HasClassNamed(s, doc[j])}
RegexHits(doc, s) == {j \in DOMAIN doc : RegexTest(s, doc[j].text)}

\* variant of First that takes the last element
First_last(q) == IF Len(q) = 0 THEN 0 ELSE q[Len(q)]

\* first element of a sequence of indices, 0 (no element) when it is empty
First(q) == IF Len(q) = 0 THEN 0 ELSE q[1]

\* el.getAttribute(name): the value, or null when the attribute is absent
getAttribute(el, name) ==
  IF name \in DOMAIN el.attrs THEN Str(el.attrs[name]) ELSE Null

(***************************************************************************)
(* URLs.  An absolute URL is <<origin, path>>; an href is either absolute  *)
(* or a path-absolute reference <<path>>.                                  *)
(***************************************************************************)
Origin == "https://x.test"

\* new URL(href, base) throws a TypeError on a reference it cannot parse
UrlValid(href) == href[1] # "http://["

\* new URL(href, base).href
ResolveUrl(href, base) ==
  IF href[1] = Origin THEN href ELSE <<base[1]>> \o href

\* the href property of an anchor: resolved against the document's URL, ""
\* when the anchor has no href attribute
hrefProperty(el, base) ==
  IF "href" \in DOMAIN el.attrs /\ el.attrs["href"] # << >>
  THEN IF UrlValid(el.attrs["href"])
       THEN Str(ResolveUrl(el.attrs["href"], base))
       ELSE Str(el.attrs["href"])
  ELSE Str(<< >>)

(***************************************************************************)
(* Rendered documents served by the site under crawl.                      *)
(***************************************************************************)
El(tag, cls, id, text, attrs, parent) ==
  [tag |-> tag, cls |-> cls, id |-> id, text |-> text, attrs |-> attrs,
   parent |-> parent]

NoAttrs == << >>
Href(h) == [href |-> h]

Url1 == <<Origin, "/list?page=1">>
Url2 == <<Origin, "/list?page=2">>

\* page 1: two cards (the second one's link carries no href), a next link,
\* an anchor without href, an anchor whose href is no URL, and a later
\* anchor whose text also reads "next" and leads back to page 1
Page1 ==
  << El("div", {}, "main", <<"Alpha", "details", "Beta", "Next", "more", "NEXT">>, NoAttrs, 0),
     El("div", {"card"}, "", <<"Alpha", "details">>, NoAttrs, 1),
     El("span", {"title"}, "", <<"Alpha">>, NoAttrs, 2),
     El("a", {"link"}, "", <<"details">>, Href(<<"/item/1">>), 2),
     El("div", {"card"}, "", <<"Beta">>, NoAttrs, 1),
     El("span", {"title"}, "", <<"Beta">>, NoAttrs, 5),
     El("a", {"link"}, "", << >>, NoAttrs, 5),
     El("a", {"next"}, "", <<"Next">>, Href(<<"/list?page=2">>), 1),
     El("a", {"more"}, "", <<"more">>, NoAttrs, 1),
     El("a", {"ext"}, "", <<"ext">>, Href(<<"http://[">>), 1),
     El("a", {"again"}, "", <<"NEXT">>, Href(<<"/list?page=1">>), 1) >>

\* page 2: one card without children, no a.next, a link back to page 1
Page2 ==
  << El("div", {}, "main", <<"Gamma", "NEXT">>, NoAttrs, 0),
     El("div", {"card"}, "", <<"Gamma">>, NoAttrs, 1),
     El("a", {"prev"}, "", <<"NEXT">>, Href(<<"/list?page=1">>), 1) >>

\* the document the tab shows after page.goto(url) succeeded
SiteDoc(url) ==
  CASE url = Url1 -> Page1
    [] url = Url2 -> Page2
    [] OTHER -> << >>

(***************************************************************************)
(* The extraction routine evaluated inside the page (lines 176-253).       *)
(***************************************************************************)
Found(i) == [throws |-> FALSE, el |-> i]
Thrown == [throws |-> TRUE, el |-> 0]

\* the method dispatch shared by extractText and extractAttribute: the
\* element the selector resolves to under the item (0: none), or a throw
FieldElement(doc, item, selector, method) ==
  CASE method = "css" ->
         IF CssValid(selector)
         THEN Found(First(Matching(doc, item, CssHits(doc, selector))))
         ELSE Thrown
    [] method = "class" ->
         Found(First(Matching(doc, item, ClassHits(doc, Replace(selector, ".")))))
    [] method = "id" ->
         LET s == <<"#">> \o Replace(selector, "#")
         IN IF CssValid(s)
            THEN Found(First(Matching(doc, item, CssHits(doc, s))))
            ELSE Thrown
    [] method = "regex" ->
         IF RegexValid(selector)
         THEN Found(First(Matching(doc, item, RegexHits(doc, selector))))
         ELSE Thrown
    [] OTHER -> Found(0)

extractText(doc, item, selector, method) ==
  LET r == FieldElement(doc, item, selector, method)
  IN IF r.throws THEN Str(<< >>)
     ELSE IF r.el # 0 THEN Str(doc[r.el].text) ELSE Str(<< >>)

extractAttribute(doc, item, selector, attribute, method) ==
  LET r == FieldElement(doc, item, selector, method)
  IN IF r.throws THEN Str(<< >>)
     ELSE IF r.el # 0 THEN getAttribute(doc[r.el], attribute) ELSE Str(<< >>)

\* fieldInfo.method || 'css', template.itemSelectorMethod || 'css',
\* template.nextPage.method || 'css': the empty string models a missing key
MethodOrCss(method) == IF method = "" THEN "css" ELSE method

\* the value stored under one field of one item (lines 240-247)
FieldValue(doc, item, fieldInfo) ==
  CASE fieldInfo.type = "text" ->
         extractText(doc, item, fieldInfo.selector, MethodOrCss(fieldInfo.method))
    [] fieldInfo.type = "attribute" ->
         extractAttribute(doc, item, fieldInfo.selector, fieldInfo.attribute,
                          MethodOrCss(fieldInfo.method))
    [] OTHER -> Str(<< >>)

\* for (let field in template.fields): the declared fields in order; a
\* template without fields gives no iteration
FieldsOf(template) == IF template.hasFields THEN template.fields ELSE << >>

\* variant of BuildRecord that stores a key only when a value was found
BuildRecord_sparse(doc, item, template) ==
  SelectSeq([k \in 1..Len(FieldsOf(template)) |->
               [key |-> FieldsOf(template)[k].name,
                value |-> FieldValue(doc, item, FieldsOf(template)[k])]],
            LAMBDA kv : Truthy(kv.value))

\* itemData of one item: one key per declared field, in order (lines 238-248)
BuildRecord(doc, item, template) ==
  [k \in 1..Len(FieldsOf(template)) |->
     [key |-> FieldsOf(template)[k].name,
      value |-> FieldValue(doc, item, FieldsOf(template)[k])]]

\* the item nodes (lines 218-231): what kind of list holds them, or the
\* exception the lookup raises
Items(kind, list) == [error |-> "", kind |-> kind, list |-> list]
ItemsThrow(e) == [error |-> e, kind |-> "", list |-> << >>]

ItemNodes(doc, template) ==
  LET itemMethod == MethodOrCss(template.itemSelectorMethod)
      sel == template.itemSelector
  IN CASE itemMethod = "css" ->
            \* querySelectorAll(undefined) looks for <undefined> elements
            LET s == IF template.hasItemSelector THEN sel ELSE <<"undefined">>
            IN IF CssValid(s)
               THEN Items("NodeList", Matching(doc, 0, CssHits(doc, s)))
               ELSE ItemsThrow("SyntaxError")
       [] itemMethod = "class" ->
            IF ~template.hasItemSelector THEN ItemsThrow("TypeError")
            ELSE Items("HTMLCollection",
                       Matching(doc, 0, ClassHits(doc, Replace(sel, "."))))
       [] itemMethod = "id" ->
            IF ~template.hasItemSelector THEN ItemsThrow("TypeError")
            ELSE LET s == <<"#">> \o Replace(sel, "#")
                 IN IF CssValid(s)
                    THEN Items("Array",
                               SubSeq(Matching(doc, 0, CssHits(doc, s)), 1, 1))
                    ELSE ItemsThrow("SyntaxError")
       [] itemMethod = "regex" ->
            \* new RegExp(undefined) is the empty pattern
            LET s == IF template.hasItemSelector THEN sel ELSE << >>
            IN IF RegexValid(s)
               THEN Items("Array", Matching(doc, 0, RegexHits(doc, s)))
               ELSE ItemsThrow("SyntaxError")
       [] OTHER -> Items("Array", << >>)

\* items.forEach exists on a NodeList and on an Array, not on the
\* HTMLCollection that getElementsByClassName returns (line 237)
HasForEach(kind) == kind \in {"NodeList", "Array"}

\* what page.evaluate resolves to: the page's records, or the exception
\* that rejects it
Evaluate(doc, template) ==
  LET items == ItemNodes(doc, template)
  IN IF items.error # "" THEN [error |-> items.error, data |-> << >>]
     ELSE IF ~HasForEach(items.kind) THEN [error |-> "TypeError", data |-> << >>]
     ELSE [error |-> "",
           data |-> [i \in 1..Len(items.list) |->
                       BuildRecord(doc, items.list[i], template)]]

(***************************************************************************)
(* The next-page lookup of the pagination loop (lines 268-297).            *)
(***************************************************************************)
Link(exists, href) == [error |-> "", exists |-> exists, href |-> href]
LinkThrow(e) == [error |-> e, exists |-> FALSE, href |-> Str(<< >>)]

\* page.$(selector) !== null, then page.$eval(selector, el => el.getAttribute('href'))
CssLink(doc, s) ==
  IF ~CssValid(s) THEN LinkThrow("SyntaxError")
  ELSE LET el == First(Matching(doc, 0, CssHits(doc, s)))
       IN IF el = 0 THEN Link(FALSE, Str(<< >>))
          ELSE Link(TRUE, getAttribute(doc[el], "href"))

\* nextPageExists and nextPageHref after lines 274-297
NextLink(doc, base, nextPage) ==
  LET nextPageSelector == nextPage.selector
      nextPageMethod == MethodOrCss(nextPage.method)
  IN CASE nextPageMethod = "css" -> CssLink(doc, nextPageSelector)
       [] nextPageMethod = "class" ->
            CssLink(doc, <<".">> \o Replace(nextPageSelector, "."))
       [] nextPageMethod = "id" ->
            CssLink(doc, <<"#">> \o Replace(nextPageSelector, "#"))
       [] nextPageMethod = "regex" ->
            IF ~RegexValid(nextPageSelector) THEN LinkThrow("SyntaxError")
            ELSE LET links == Matching(doc, 0, CssHits(doc, <<"a">>))
                     hits == SelectSeq(links,
                               LAMBDA j : RegexTest(nextPageSelector, doc[j].text))
                     nextLink == First(hits)
                 IN IF nextLink = 0 THEN Link(FALSE, Str(<< >>))
                    ELSE Link(TRUE, hrefProperty(doc[nextLink], base))
       [] OTHER -> Link(FALSE, Str(<< >>))

\* template.nextPage && template.nextPage.selector (line 268)
HasNextSpec(template) ==
  template.hasNextPage /\ template.nextPage.selector # << >>

\* variant of PaginationLimit that falls back to a default of two pages
PaginationLimit_default(template) ==
  IF template.paginationLimit = 0 THEN 2 ELSE template.paginationLimit

\* template.paginationLimit || null (line 165): 0 models a missing key
\* and every other falsy value
PaginationLimit(template) == template.paginationLimit

\* variant of NextPageNumber that forgets the increment
NextPageNumber_same(page) == page

\* currentPage++ (line 302)
NextPageNumber(page) == page + 1

\* variant of LimitReached with the comparison off by one: the limit is
\* noticed one page late
LimitReached_late(paginationLimit, page) ==
  paginationLimit # 0 /\ page > paginationLimit

\* paginationLimit && currentPage >= paginationLimit (line 261)
LimitReached(paginationLimit, page) ==
  paginationLimit # 0 /\ page >= paginationLimit

\* variant of Aggregate that puts the new batch in front
Aggregate_prepend(aggregated, scraped) == scraped \o aggregated

\* aggregatedData.concat(scrapedData) (line 258)
Aggregate(aggregated, scraped) == aggregated \o scraped

(***************************************************************************)
(* Request bodies.                                                         *)
(***************************************************************************)
Field(name, type, selector, method, attribute) ==
  [name |-> name, type |-> type, selector |-> selector, method |-> method,
   attribute |-> attribute]

NextSpec(selector, method) == [selector |-> selector, method |-> method]
NoNext == NextSpec(<< >>, "")

Tmpl(itemSelector, hasItemSelector, itemSelectorMethod, fields, hasFields, nextPage, hasNextPage, paginationLimit) ==
  [itemSelector |-> itemSelector, hasItemSelector |-> hasItemSelector,
   itemSelectorMethod |-> itemSelectorMethod,
   fields |-> fields, hasFields |-> hasFields,
   nextPage |-> nextPage, hasNextPage |-> hasNextPage,
   paginationLimit |-> paginationLimit]

\* the fields of the usual template: a text and an attribute, default method
Fields1 ==
  << Field("title", "text", <<".", "title">>, "css", ""),
     Field("link", "attribute", <<"a">>, "", "href") >>

\* one field per remaining branch of the dispatch, two of them with a
\* pattern that does not parse
Fields2 ==
  << Field("t", "text", <<"title">>, "class", ""),
     Field("r", "text", <<"(">>, "regex", ""),
     Field("u", "attribute", <<"a", "[">>, "css", "href"),
     Field("h", "attribute", <<"next">>, "class", "href"),
     Field("n", "text", <<"next">>, "id", ""),
     Field("g", "text", <<"Alpha">>, "regex", ""),
     Field("x", "html", <<"a">>, "css", "") >>

Card == <<".", "card">>

Paged(nextPage, hasNextPage, paginationLimit) ==
  Tmpl(Card, TRUE, "", Fields1, TRUE, nextPage, hasNextPage, paginationLimit)

NextSpecs ==
  { NextSpec(<<"a", ".", "next">>, ""),
    NextSpec(<<"Next">>, "regex"),
    NextSpec(<<"a", ".", "more">>, "css"),
    NextSpec(<<"a", "[">>, "css"),
    NextSpec(<<"ext">>, "class") }

LimitedNextSpecs ==
  { NextSpec(<<"a", ".", "next">>, ""), NextSpec(<<"Next">>, "regex") }

TemplateSet ==
  { Paged(NoNext, FALSE, 0) }
  \cup { Paged(n, TRUE, 0) : n \in NextSpecs }
  \cup { Paged(n, TRUE, l) : n \in LimitedNextSpecs, l \in 1..MaxLimit }
  \cup { Tmpl(<<"a", "[">>, TRUE, "css", Fields1, TRUE, NoNext, FALSE, 0),
         Tmpl(Card, TRUE, "class", Fields1, TRUE, NoNext, FALSE, 0),
         Tmpl(<< >>, FALSE, "", Fields1, TRUE, NoNext, FALSE, 0),
         Tmpl(Card, TRUE, "css", << >>, FALSE, NoNext, FALSE, 0),
         Tmpl(<<"#", "main">>, TRUE, "id", Fields2, TRUE, NoNext, FALSE, 0),
         Tmpl(<<"Alpha">>, TRUE, "regex", Fields2, TRUE, NoNext, FALSE, 0) }

\* the keys of the templates map, in the order for...in visits them
TemplateNames == <<"alpha", "beta", "gamma", "delta">>

\* req.body.url: missing, a URL, or a string new URL() cannot parse
UrlInputs == { << >>, Url1, <<"not-a-url">> }

\* new URL(url) succeeds (line 129)
UrlParses(url) == Len(url) > 0 /\ url[1] = Origin

Bodies ==
  { [url |-> u, hasTemplates |-> TRUE, templates |-> ts] :
      u \in UrlInputs,
      ts \in UNION { [1..n -> TemplateSet] : n \in 0..MaxTemplates } }
  \cup { [url |-> u, hasTemplates |-> FALSE, templates |-> << >>] : u \in UrlInputs }

(***************************************************************************)
(* The fixed-schema scraper (src/scraper.js): its pure functions.          *)
(***************************************************************************)
\* the last page main asks for
LastPage == 5

\* what cheerio's attr() gives for an attribute the element lacks, or for
\* an element that is not there
Undefined == [t |-> "undefined", v |-> << >>]

\* String.prototype.trim, " " being the whitespace token
RECURSIVE TrimStart(_)
TrimStart(s) == IF s # << >> /\ Head(s) = " " THEN TrimStart(Tail(s)) ELSE s

RECURSIVE TrimEnd(_)
TrimEnd(s) ==
  IF s # << >> /\ s[Len(s)] = " " THEN TrimEnd(SubSeq(s, 1, Len(s) - 1)) ELSE s

Trim(s) == TrimEnd(TrimStart(s))

\* a || b on attribute values
OrElse(a, b) == IF Truthy(a) THEN a ELSE b

\* 'text' + value: undefined is spelled out
Plus(s, x) == Str(s \o (IF x.t = "undefined" THEN <<"undefined">> ELSE x.v))

\* BASE_URL.slice(0, -11)
BaseUrlSliced == <<"https://autogidas.lt/skelbimai/au">>

\* an .article-item element: the text of its .item-title and .item-price,
\* the attributes of its .image img and a.item-link (Undefined when the
\* element or the attribute is missing), and its .params .icon entries
Listing(title, price, dataSrc, src, href, params) ==
  [title |-> title, price |-> price, dataSrc |-> dataSrc, src |-> src,
   href |-> href, params |-> params]

Icon(i, b) == [i |-> i, b |-> b]

\* the body of a response: an HTML string holding these .article-item
\* elements; EmptyBody is the empty string, NoContent the null that
\* getPageContent returns for a failed request
HtmlBody(items) == [t |-> "string", empty |-> FALSE, items |-> items]
EmptyBody == [t |-> "string", empty |-> TRUE, items |-> << >>]
NoContent == [t |-> "null", empty |-> TRUE, items |-> << >>]

\* if (pageContent)
ContentTruthy(c) == c.t = "string" /\ ~c.empty

SpecKeys == {"Year", "Fuel", "Gearbox", "Engine", "Mileage", "Location"}

\* the chain of key === tests (lines 58-63): the field a label fills, ""
\* for a label that is none of the six (labels in ASCII spelling)
SpecField(key) ==
  CASE key = <<"Metai">> -> "Year"
    [] key = <<"Kuro tipas">> -> "Fuel"
    [] key = <<"Pavaru deze">> -> "Gearbox"
    [] key = <<"Variklis">> -> "Engine"
    [] key = <<"Rida">> -> "Mileage"
    [] key = <<"Miestas">> -> "Location"
    [] OTHER -> ""

\* the specifications object after the .params .icon entries were walked
\* in order (lines 45-65)
RECURSIVE Specifications(_, _)
Specifications(params, acc) ==
  IF params = << >>
  THEN acc
  ELSE LET key == Trim(Head(params).i)
           value == Trim(Head(params).b)
           f == SpecField(key)
       IN Specifications(Tail(params),
            IF key # << >> /\ value # << >> /\ f # ""
            THEN [acc EXCEPT ![f] = value]
            ELSE acc)

\* the record pushed for a listing (lines 69-80)
CarRecord(el) ==
  LET specifications == Specifications(el.params, [k \in SpecKeys |-> << >>])
  IN [Title |-> Str(Trim(el.title)),
      Price |-> Str(Trim(el.price)),
      ImageURL |-> OrElse(el.dataSrc, el.src),
      Year |-> Str(specifications["Year"]),
      Fuel |-> Str(specifications["Fuel"]),
      Gearbox |-> Str(specifications["Gearbox"]),
      Engine |-> Str(specifications["Engine"]),
      Mileage |-> Str(specifications["Mileage"]),
      Location |-> Str(specifications["Location"]),
      DetailPageURL |-> Plus(BaseUrlSliced, el.href)]

\* if (price && title)
HasPriceAndTitle(el) == Trim(el.price) # << >> /\ Trim(el.title) # << >>

scrapeCarData(content) ==
  LET kept == SelectSeq(content.items, HasPriceAndTitle)
  IN [i \in 1..Len(kept) |-> CarRecord(kept[i])]

\* value.replace(/,/g, '')
StripCommas(s) == SelectSeq(s, LAMBDA c : c # ",")

\* Object.keys(data[0]), in insertion order
CsvKeys ==
  <<"Title", "Price", "ImageURL", "Year", "Fuel", "Gearbox", "Engine",
    "Mileage", "Location", "DetailPageURL">>

\* item[key].replace throws a TypeError on a value that is not a string
CsvThrows(data) ==
  \E i \in DOMAIN data : \E k \in DOMAIN CsvKeys : data[i][CsvKeys[k]].t # "string"

\* the header row and one row per record (line 99)
CsvContent(data) ==
  <<CsvKeys>> \o
  [i \in DOMAIN data |-> [k \in DOMAIN CsvKeys |-> StripCommas(data[i][CsvKeys[k]].v)]]

\* the listings of the site
Audi ==
  Listing(<<" ", "Audi", " ">>, <<"5", ",", "000">>, Str(<<"/a.jpg">>), Undefined,
          Str(<<"/audi">>), <<Icon(<<"Metai">>, <<"2010">>), Icon(<<"Spalva">>, <<"red">>)>>)
Unpriced ==
  Listing(<<"BMW">>, <<" ">>, Undefined, Str(<<"/b.jpg">>), Str(<<"/bmw">>), << >>)
Bare ==
  Listing(<<"Citroen">>, <<"900">>, Undefined, Undefined, Undefined,
          <<Icon(<<"Rida">>, <<" ">>), Icon(<<"Miestas">>, <<"Vilnius">>)>>)

\* what a request for a listing page may come back with
Contents ==
  { EmptyBody, HtmlBody(<< >>), HtmlBody(<<Audi, Unpriced>>), HtmlBody(<<Bare>>) }

(***************************************************************************)
(* State.                                                                  *)
(***************************************************************************)
VARIABLES
  browser,         \* the shared browser: "launching", "ready" or "failed"
  body,            \* req.body of the /scrape request being handled
  pc,              \* where the handler is
  openTabs,        \* tabs opened with browser.newPage() and not closed
  tIdx,            \* position of templateName in the for...in loop
  currentPageUrl,
  currentPage,
  hasNextPage,
  aggregatedData,
  loaded,          \* URL of the document the tab shows
  error,           \* the exception on its way to the catch clause
  responses,       \* status codes sent on res
  storage,         \* CSV files written: template name and records
  navLog,          \* page.goto calls made
  batches,         \* scrapedData of every evaluated page
  delays           \* sleep(getRandomDelay()) calls made

\* the state of the fixed-schema scraper (scraper.js), a program of its own
VARIABLES
  sPc,             \* where main is
  pageNumber,
  pageContent,     \* what getPageContent returned for the page
  scrapedData,
  fetchLog,        \* getPageContent calls made: page and what came back
  waits,           \* two-second waits taken
  saveCalls,       \* the lists saveToCSV was invoked with
  files            \* CSV contents written by saveToCSV

serverVars ==
  << browser, body, pc, openTabs, tIdx, currentPageUrl, currentPage,
     hasNextPage, aggregatedData, loaded, error, responses, storage, navLog,
     batches, delays >>

scraperVars ==
  << sPc, pageNumber, pageContent, scrapedData, fetchLog, waits, saveCalls,
     files >>

vars == << serverVars, scraperVars >>

loopVars == << tIdx, currentPageUrl, currentPage, hasNextPage, aggregatedData >>
logVars == << responses, storage, navLog, batches, delays >>

template == body.templates[tIdx]
templateName == TemplateNames[tIdx]

\* scraper.js is not running
ScraperIdle ==
  /\ sPc = "idle"
  /\ pageNumber = 0
  /\ pageContent = NoContent
  /\ scrapedData = << >>
  /\ fetchLog = << >>
  /\ waits = 0
  /\ saveCalls = << >>
  /\ files = << >>

Init ==
  /\ browser = "launching"
  /\ body \in Bodies
  /\ pc = "received"
  /\ openTabs = 0
  /\ tIdx = 0
  /\ currentPageUrl = << >>
  /\ currentPage = 0
  /\ hasNextPage = FALSE
  /\ aggregatedData = << >>
  /\ loaded = << >>
  /\ error = ""
  /\ responses = << >>
  /\ storage = << >>
  /\ navLog = << >>
  /\ batches = << >>
  /\ delays = 0
  /\ ScraperIdle

(***************************************************************************)
(* The browser launch (lines 112-120).                                     *)
(***************************************************************************)
LaunchOk ==
  /\ browser = "launching"
  /\ browser' = "ready"
  /\ UNCHANGED << body, pc, openTabs, loopVars, loaded, error, logVars >>
  /\ UNCHANGED scraperVars

LaunchFail ==
  /\ browser = "launching"
  /\ browser' = "failed"
  /\ UNCHANGED << body, pc, openTabs, loopVars, loaded, error, logVars >>
  /\ UNCHANGED scraperVars

(***************************************************************************)
(* POST /scrape (lines 123-337).                                           *)
(***************************************************************************)
Throw(e) == error' = e /\ pc' = "catch"

\* lines 124-131: the input check, then new URL(url) outside the try block
CheckInput ==
  /\ pc = "received"
  /\ IF body.url = << >> \/ ~body.hasTemplates
     THEN responses' = Append(responses, 400) /\ pc' = "done"
     ELSE IF ~UrlParses(body.url)
     THEN pc' = "rejected" /\ UNCHANGED responses
     ELSE pc' = "newPage" /\ UNCHANGED responses
  /\ UNCHANGED << browser, body, openTabs, loopVars, loaded, error, storage,
                  navLog, batches, delays >>
  /\ UNCHANGED scraperVars

\* lines 134-156: browser is undefined until the launch has succeeded
NewPage ==
  /\ pc = "newPage"
  /\ IF browser = "ready"
     THEN openTabs' = openTabs + 1 /\ pc' = "forTemplate" /\ UNCHANGED error
     ELSE Throw("TypeError") /\ UNCHANGED openTabs
  /\ UNCHANGED << browser, body, loopVars, loaded, logVars >>
  /\ UNCHANGED scraperVars

\* variant of ForTemplate whose currentPageUrl is declared outside the loop
\* and so is carried from one template to the next
ForTemplate_carryUrl ==
  /\ pc = "forTemplate"
  /\ IF tIdx < Len(body.templates)
     THEN /\ tIdx' = tIdx + 1
          /\ currentPageUrl' = IF tIdx = 0 THEN body.url ELSE currentPageUrl
          /\ currentPage' = 1
          /\ hasNextPage' = TRUE
          /\ aggregatedData' = << >>
          /\ pc' = "goto"
     ELSE pc' = "close" /\ UNCHANGED loopVars
  /\ UNCHANGED << browser, body, openTabs, loaded, error, logVars >>
  /\ UNCHANGED scraperVars

\* lines 158-167: the next template, or the end of the loop
ForTemplate ==
  /\ pc = "forTemplate"
  /\ IF tIdx < Len(body.templates)
     THEN /\ tIdx' = tIdx + 1
          /\ currentPageUrl' = body.url
          /\ currentPage' = 1
          /\ hasNextPage' = TRUE
          /\ aggregatedData' = << >>
          /\ pc' = "goto"
     ELSE pc' = "close" /\ UNCHANGED loopVars
  /\ UNCHANGED << browser, body, openTabs, loaded, error, logVars >>
  /\ UNCHANGED scraperVars

\* variant of Goto that tries the same URL again when page.goto rejects
Goto_retry ==
  /\ pc = "goto"
  /\ currentPage <= MaxNav
  /\ Len(navLog) < MaxNav + MaxTemplates
  /\ \E ok \in BOOLEAN :
       /\ navLog' = Append(navLog, [t |-> tIdx, url |-> currentPageUrl,
                                    page |-> currentPage, ok |-> ok])
       /\ IF ok
          THEN loaded' = currentPageUrl /\ pc' = "sleep"
          ELSE pc' = "goto" /\ UNCHANGED loaded
  /\ UNCHANGED << browser, body, openTabs, loopVars, error, responses, storage,
                  batches, delays >>
  /\ UNCHANGED scraperVars

\* line 170: page.goto resolves, or rejects and leaves the try block
Goto ==
  /\ pc = "goto"
  /\ currentPage <= MaxNav
  /\ \E ok \in BOOLEAN :
       /\ navLog' = Append(navLog, [t |-> tIdx, url |-> currentPageUrl,
                                    page |-> currentPage, ok |-> ok])
       /\ IF ok
          THEN loaded' = currentPageUrl /\ pc' = "sleep" /\ UNCHANGED error
          ELSE Throw("NavigationError") /\ UNCHANGED loaded
  /\ UNCHANGED << browser, body, openTabs, loopVars, responses, storage,
                  batches, delays >>
  /\ UNCHANGED scraperVars

\* variant of Sleep that goes on without waiting
Sleep_skip ==
  /\ pc = "sleep"
  /\ pc' = "evaluate"
  /\ UNCHANGED << browser, body, openTabs, loopVars, loaded, error, responses,
                  storage, navLog, batches, delays >>
  /\ UNCHANGED scraperVars

\* line 173
Sleep ==
  /\ pc = "sleep"
  /\ delays' = delays + 1
  /\ pc' = "evaluate"
  /\ UNCHANGED << browser, body, openTabs, loopVars, loaded, error, responses,
                  storage, navLog, batches >>
  /\ UNCHANGED scraperVars

\* lines 176-258: page.evaluate, then the batch is aggregated
Extract ==
  /\ pc = "evaluate"
  /\ LET r == Evaluate(SiteDoc(loaded), template)
     IN IF r.error # ""
        THEN Throw(r.error) /\ UNCHANGED << aggregatedData, batches >>
        ELSE /\ aggregatedData' = Aggregate(aggregatedData, r.data)
             /\ batches' = Append(batches, [t |-> tIdx, page |-> currentPage,
                                            data |-> r.data])
             /\ pc' = "checkLimit"
             /\ UNCHANGED error
  /\ UNCHANGED << browser, body, openTabs, tIdx, currentPageUrl, currentPage,
                  hasNextPage, loaded, responses, storage, navLog, delays >>
  /\ UNCHANGED scraperVars

\* lines 260-265
CheckLimit ==
  /\ pc = "checkLimit"
  /\ IF LimitReached(PaginationLimit(template), currentPage)
     THEN hasNextPage' = FALSE /\ pc' = "save"
     ELSE pc' = "checkNextLink" /\ UNCHANGED hasNextPage
  /\ UNCHANGED << browser, body, openTabs, tIdx, currentPageUrl, currentPage,
                  aggregatedData, loaded, error, logVars >>
  /\ UNCHANGED scraperVars

\* lines 267-308
CheckNextLink ==
  /\ pc = "checkNextLink"
  /\ IF HasNextSpec(template)
     THEN LET r == NextLink(SiteDoc(loaded), currentPageUrl, template.nextPage)
          IN IF r.error # ""
             THEN Throw(r.error)
                  /\ UNCHANGED << currentPageUrl, currentPage, hasNextPage >>
             ELSE IF r.exists /\ Truthy(r.href)
             THEN IF UrlValid(r.href.v)
                  THEN /\ currentPageUrl' = ResolveUrl(r.href.v, currentPageUrl)
                       /\ currentPage' = NextPageNumber(currentPage)
                       /\ pc' = "goto"
                       /\ UNCHANGED << hasNextPage, error >>
                  ELSE Throw("TypeError")
                       /\ UNCHANGED << currentPageUrl, currentPage, hasNextPage >>
             ELSE /\ hasNextPage' = FALSE
                  /\ pc' = "save"
                  /\ UNCHANGED << currentPageUrl, currentPage, error >>
     ELSE /\ hasNextPage' = FALSE
          /\ pc' = "save"
          /\ UNCHANGED << currentPageUrl, currentPage, error >>
  /\ UNCHANGED << browser, body, openTabs, tIdx, aggregatedData, loaded,
                  logVars >>
  /\ UNCHANGED scraperVars

\* variant of SaveCsv without the length check: a file for every template
SaveCsv_always ==
  /\ pc = "save"
  /\ storage' = Append(storage, [t |-> tIdx, name |-> templateName,
                                  records |-> aggregatedData])
  /\ pc' = "forTemplate"
  /\ UNCHANGED << browser, body, openTabs, loopVars, loaded, error, responses,
                  navLog, batches, delays >>
  /\ UNCHANGED scraperVars

\* lines 311-327: a CSV file is written only for a non-empty result
SaveCsv ==
  /\ pc = "save"
  /\ IF Len(aggregatedData) > 0
     THEN storage' = Append(storage, [t |-> tIdx, name |-> templateName,
                                      records |-> aggregatedData])
     ELSE UNCHANGED storage
  /\ pc' = "forTemplate"
  /\ UNCHANGED << browser, body, openTabs, loopVars, loaded, error, responses,
                  navLog, batches, delays >>
  /\ UNCHANGED scraperVars

\* lines 330-332
ClosePage ==
  /\ pc = "close"
  /\ openTabs' = openTabs - 1
  /\ responses' = Append(responses, 200)
  /\ pc' = "done"
  /\ UNCHANGED << browser, body, loopVars, loaded, error, storage, navLog,
                  batches, delays >>
  /\ UNCHANGED scraperVars

\* lines 333-336
Catch ==
  /\ pc = "catch"
  /\ responses' = Append(responses, 500)
  /\ pc' = "done"
  /\ UNCHANGED << browser, body, openTabs, loopVars, loaded, error, storage,
                  navLog, batches, delays >>
  /\ UNCHANGED scraperVars

Next ==
  \/ LaunchOk
  \/ LaunchFail
  \/ CheckInput
  \/ NewPage
  \/ ForTemplate
  \/ Goto
  \/ Sleep
  \/ Extract
  \/ CheckLimit
  \/ CheckNextLink
  \/ SaveCsv
  \/ ClosePage
  \/ Catch

Spec == Init /\ [][Next]_vars

(***************************************************************************)
(* The fixed-schema scraper (src/scraper.js): main.                        *)
(***************************************************************************)
\* no /scrape request is around while scraper.js runs: it is another program
ServerIdle ==
  /\ browser = "launching"
  /\ body = [url |-> << >>, hasTemplates |-> FALSE, templates |-> << >>]
  /\ pc = "idle"
  /\ openTabs = 0
  /\ tIdx = 0
  /\ currentPageUrl = << >>
  /\ currentPage = 0
  /\ hasNextPage = FALSE
  /\ aggregatedData = << >>
  /\ loaded = << >>
  /\ error = ""
  /\ responses = << >>
  /\ storage = << >>
  /\ navLog = << >>
  /\ batches = << >>
  /\ delays = 0

\* main has entered its loop (lines 108-110)
ScraperInit ==
  /\ ServerIdle
  /\ sPc = "fetch"
  /\ pageNumber = 1
  /\ pageContent = NoContent
  /\ scrapedData = << >>
  /\ fetchLog = << >>
  /\ waits = 0
  /\ saveCalls = << >>
  /\ files = << >>

\* lines 111-114: getPageContent resolves with the body of the response, or
\* with null when axios.get rejected
GetPageContent ==
  /\ sPc = "fetch"
  /\ \E c \in Contents \cup {NoContent} :
       /\ pageContent' = c
       /\ fetchLog' = Append(fetchLog, [page |-> pageNumber, content |-> c])
  /\ sPc' = "scrape"
  /\ UNCHANGED << pageNumber, scrapedData, waits, saveCalls, files >>
  /\ UNCHANGED serverVars

\* variant of Scrape that leaves the loop when the page could not be fetched
Scrape_stopOnFailure ==
  /\ sPc = "scrape"
  /\ IF ContentTruthy(pageContent)
     THEN scrapedData' = scrapedData \o scrapeCarData(pageContent) /\ sPc' = "wait"
     ELSE scrapedData' = scrapedData /\ sPc' = "save"
  /\ UNCHANGED << pageNumber, pageContent, fetchLog, waits, saveCalls, files >>
  /\ UNCHANGED serverVars

\* lines 115-120
Scrape ==
  /\ sPc = "scrape"
  /\ scrapedData' = IF ContentTruthy(pageContent)
                    THEN scrapedData \o scrapeCarData(pageContent)
                    ELSE scrapedData
  /\ sPc' = "wait"
  /\ UNCHANGED << pageNumber, pageContent, fetchLog, waits, saveCalls, files >>
  /\ UNCHANGED serverVars

\* line 123, then pageNumber++ and the loop test of line 110
Wait ==
  /\ sPc = "wait"
  /\ waits' = waits + 1
  /\ pageNumber' = pageNumber + 1
  /\ sPc' = IF pageNumber + 1 <= LastPage THEN "fetch" ELSE "save"
  /\ UNCHANGED << pageContent, scrapedData, fetchLog, saveCalls, files >>
  /\ UNCHANGED serverVars

\* line 127 and saveToCSV (lines 89-104): nothing is written for an empty
\* list; a value that is no string makes line 99 throw before the file is
\* written, and main's promise rejects
SaveToCSV ==
  /\ sPc = "save"
  /\ saveCalls' = Append(saveCalls, scrapedData)
  /\ IF scrapedData = << >>
     THEN files' = files /\ sPc' = "end"
     ELSE IF CsvThrows(scrapedData)
     THEN files' = files /\ sPc' = "crashed"
     ELSE files' = Append(files, CsvContent(scrapedData)) /\ sPc' = "end"
  /\ UNCHANGED << pageNumber, pageContent, scrapedData, fetchLog, waits >>
  /\ UNCHANGED serverVars

ScraperNext ==
  \/ GetPageContent
  \/ Scrape
  \/ Wait
  \/ SaveToCSV

SpecScraper == ScraperInit /\ [][ScraperNext]_vars

(***************************************************************************)
(* Properties.                                                             *)
(***************************************************************************)
\* the batches logged for template t, in the order they were extracted
BatchesOf(t) == SelectSeq(batches, LAMBDA b : b.t = t)

\* the page.goto calls logged for template t
NavsOf(t) == SelectSeq(navLog, LAMBDA n : n.t = t)

RECURSIVE Concat(_)
Concat(q) == IF q = << >> THEN << >> ELSE Head(q).data \o Concat(Tail(q))

\* q ends with the sequence tail
EndsWith(q, tail) ==
  Len(tail) <= Len(q) /\ SubSeq(q, Len(q) - Len(tail) + 1, Len(q)) = tail

\* the templates whose traversal has started
Started == 1..tIdx

\* C1: with paginationLimit L > 0, the traversal stops once page L has been
\* extracted and aggregated: the next-page link is never consulted at page L,
\* no page beyond L is navigated (at most L navigations for the template),
\* and the result the traversal ends with carries page L's records last.
C1_LimitPrecedence ==
  \A t \in Started :
    LET L == PaginationLimit(body.templates[t])
    IN L > 0 =>
         /\ Len(NavsOf(t)) <= L
         /\ \A i \in DOMAIN navLog : navLog[i].t = t => navLog[i].page <= L
         /\ (t = tIdx /\ pc = "checkNextLink") => currentPage < L
         /\ (t = tIdx /\ pc = "save" /\ currentPage >= L) =>
              /\ ~hasNextPage
              /\ currentPage = L
              /\ Len(BatchesOf(t)) = L
              /\ EndsWith(aggregatedData, BatchesOf(t)[L].data)
         /\ \A i \in DOMAIN storage :
              (storage[i].t = t /\ Len(BatchesOf(t)) = L) =>
                EndsWith(storage[i].records, BatchesOf(t)[L].data)

\* the limit stopped the traversal on a page that does carry a next link
C1_Witness ==
  /\ pc = "save"
  /\ PaginationLimit(template) = 1
  /\ currentPage = 1
  /\ Len(aggregatedData) = 2
  /\ LET r == NextLink(SiteDoc(loaded), currentPageUrl, template.nextPage)
     IN r.exists /\ Truthy(r.href)

\* what the next-page selector resolves to on the current page, an
\* unparsable pattern counting as no match
NextNode == NextLink(SiteDoc(loaded), currentPageUrl, template.nextPage)

\* C2: without paginationLimit, the step after extraction goes to Done with
\* no navigation when the template has no nextPage, the selector resolves to
\* no node or the node has no href value; in every other case it goes on to
\* one navigation of the resolved URL with the page counter incremented.
C2_NextDecision ==
  [][ (pc = "checkNextLink" /\ PaginationLimit(template) = 0) =>
        IF \/ ~HasNextSpec(template)
           \/ NextNode.error # ""
           \/ ~NextNode.exists
           \/ ~Truthy(NextNode.href)
        THEN pc' = "save" /\ navLog' = navLog /\ currentPage' = currentPage
        ELSE /\ pc' = "goto"
             /\ currentPage' = currentPage + 1
             /\ currentPageUrl' = ResolveUrl(NextNode.href.v, currentPageUrl) ]_vars

\* C3: the template's result is the concatenation, in fetch order, of the
\* batches of the pages extracted so far for that template, and so is every
\* file written; batch k of a template is the batch of its page k.
C3_Aggregation ==
  /\ aggregatedData = Concat(BatchesOf(tIdx))
  /\ \A t \in Started : \A k \in 1..Len(BatchesOf(t)) : BatchesOf(t)[k].page = k
  /\ \A i \in DOMAIN storage :
       /\ storage[i].records = Concat(BatchesOf(storage[i].t))
       /\ Len(storage[i].records) > 0

\* two non-empty batches have been aggregated
C3_Witness ==
  /\ pc = "checkLimit"
  /\ Len(BatchesOf(tIdx)) = 2
  /\ Len(BatchesOf(tIdx)[1].data) = 2
  /\ Len(BatchesOf(tIdx)[2].data) = 1
  /\ Len(aggregatedData) = 3

\* C4: every value stored in a record is a string, never null; a field
\* whose selector or attribute matches nothing holds "".
C4_AlwaysString ==
  \A i \in DOMAIN batches : \A j \in DOMAIN batches[i].data :
    \A k \in DOMAIN batches[i].data[j] : batches[i].data[j][k].value.t = "string"

\* a navigation of the request has failed
NavigationFailed == error = "NavigationError"

\* C5 as stated: after a navigation failure nothing of the request is in
\* storage.
C5_NothingPersisted == NavigationFailed => storage = << >>

\* C5: after a navigation failure in template N the request answers with a
\* failure, storage holds nothing of template N or a later one, and it holds
\* exactly the non-empty results of templates 1..N-1, in order.
C5_EarlierTemplatesPersisted ==
  NavigationFailed =>
    /\ pc \in {"catch", "done"}
    /\ (pc = "done" => responses = <<500>>)
    /\ (pc = "catch" => responses = << >>)
    /\ ~navLog[Len(navLog)].ok /\ navLog[Len(navLog)].t = tIdx
    /\ \A i \in DOMAIN storage : storage[i].t < tIdx
    /\ \A i \in DOMAIN storage : \A j \in DOMAIN storage : i < j => storage[i].t < storage[j].t
    /\ \A t \in 1..(tIdx - 1) :
         (Concat(BatchesOf(t)) # << >>) <=>
           (\E i \in DOMAIN storage :
              storage[i].t = t /\ storage[i].records = Concat(BatchesOf(t)))

\* the second template's navigation failed after the first one's file was
\* written, and the failure has been reported
C5_Witness ==
  /\ NavigationFailed
  /\ pc = "done"
  /\ tIdx = 2
  /\ Len(storage) = 1

\* C6: a pattern that does not parse, in the item selector or the next-page
\* selector, never ends the request with a failure.
C6_ResolutionNeverSurfaces == ~(error = "SyntaxError" /\ pc = "done")

\* some template of the request lacks itemSelector or fields
LacksRequired ==
  \E t \in DOMAIN body.templates :
    ~body.templates[t].hasItemSelector \/ ~body.templates[t].hasFields

\* C7: a request with a template lacking itemSelector or fields loads no
\* page and ends with one error that is not the navigation-failure answer.
C7_ValidatedBeforeNavigation ==
  LacksRequired =>
    /\ navLog = << >>
    /\ (pc = "done" /\ error = "" =>
         Len(responses) = 1 /\ responses[1] \notin {200, 500})

\* the field names a template declares, in order
DeclaredKeys(t) ==
  [k \in 1..Len(FieldsOf(body.templates[t])) |-> FieldsOf(body.templates[t])[k].name]

KeysOf(record) == [k \in 1..Len(record) |-> record[k].key]

\* C8: every record of every batch, of the running result and of every file
\* has exactly the declared field names as keys, in declaration order.
C8_RecordShape ==
  /\ \A i \in DOMAIN batches : \A j \in DOMAIN batches[i].data :
       KeysOf(batches[i].data[j]) = DeclaredKeys(batches[i].t)
  /\ \A j \in DOMAIN aggregatedData : KeysOf(aggregatedData[j]) = DeclaredKeys(tIdx)
  /\ \A i \in DOMAIN storage : \A j \in DOMAIN storage[i].records :
       KeysOf(storage[i].records[j]) = DeclaredKeys(storage[i].t)

\* a record all of whose fields matched nothing has been written to a file
C8_Witness ==
  \E i \in DOMAIN storage : \E j \in DOMAIN storage[i].records :
    /\ Len(storage[i].records[j]) = 2
    /\ \A k \in DOMAIN storage[i].records[j] :
         storage[i].records[j][k].value = Str(<< >>)

\* C9: a request that supplies url and templates never has more than one
\* response, and has exactly one when its handler has ended.
C9_SingleOutcome ==
  (body.url # << >> /\ body.hasTemplates) =>
    /\ Len(responses) <= 1
    /\ (pc \in {"done", "rejected"} => Len(responses) = 1)

\* C10: templates are traversed in declaration order, one at a time; each
\* traversal starts at page 1, at the request's url and with an empty
\* result, and a template's file holds the records of its own pages only.
C10_TemplateIsolation ==
  /\ \A i \in DOMAIN navLog : \A j \in DOMAIN navLog :
       i < j => navLog[i].t <= navLog[j].t
  /\ \A i \in DOMAIN navLog : navLog[i].t \in Started
  /\ \A t \in Started :
       Len(NavsOf(t)) > 0 => NavsOf(t)[1].page = 1 /\ NavsOf(t)[1].url = body.url
  /\ \A t \in Started : t < tIdx => Len(NavsOf(t)) > 0
  /\ (pc = "goto" /\ Len(NavsOf(tIdx)) = 0) =>
       currentPage = 1 /\ currentPageUrl = body.url /\ aggregatedData = << >>
  /\ \A i \in DOMAIN storage :
       /\ storage[i].name = TemplateNames[storage[i].t]
       /\ storage[i].records = Concat(BatchesOf(storage[i].t))
       /\ \A j \in DOMAIN storage : i < j => storage[i].t < storage[j].t

\* the second template is about to start after the first one ended on page 2
\* with three records
C10_Witness ==
  /\ tIdx = 2
  /\ pc = "goto"
  /\ Len(NavsOf(2)) = 0
  /\ Len(NavsOf(1)) = 2
  /\ loaded = Url2
  /\ Len(storage) = 1 /\ Len(storage[1].records) = 3

\* the files written for template t
EntriesOf(t) == SelectSeq(storage, LAMBDA s : s.t = t)

\* the traversal of template t has reached Done and the step after it
\* (lines 311-327) has run
HandedOff(t) ==
  \/ t < tIdx
  \/ t = tIdx /\ pc \in {"forTemplate", "close"}
  \/ t = tIdx /\ pc = "done" /\ error = ""

\* C11 as stated: every template whose traversal reached Done has exactly
\* one file, also a template with zero records.
C11_EveryResultHandedOff ==
  \A t \in Started : HandedOff(t) => Len(EntriesOf(t)) = 1

\* C11: a template whose traversal reached Done with at least one record has
\* exactly one file, holding its result, written after the traversal ended
\* and before the next template starts; a template with zero records has
\* none; no file exists for a traversal that has not ended.
C11_NonEmptyResultHandedOff ==
  \A t \in Started :
    /\ Len(EntriesOf(t)) <= 1
    /\ HandedOff(t) =>
         /\ (Len(EntriesOf(t)) = 1) <=> (Concat(BatchesOf(t)) # << >>)
         /\ \A i \in DOMAIN EntriesOf(t) :
              EntriesOf(t)[i].records = Concat(BatchesOf(t))
    /\ ~HandedOff(t) => Len(EntriesOf(t)) = 0

\* the first template ended with zero records and has no file, the second
\* one has its file
C11_Witness ==
  /\ tIdx = 2
  /\ pc = "forTemplate"
  /\ Len(BatchesOf(1)) = 1 /\ Concat(BatchesOf(1)) = << >>
  /\ Len(EntriesOf(1)) = 0
  /\ Len(EntriesOf(2)) = 1

\* C12: a failed navigation is the last navigation of the request: it is
\* not tried again, nothing is extracted from it or after it, and the
\* request ends with the failure response.
C12_NavigationFailureTerminal ==
  /\ \A i \in DOMAIN navLog : ~navLog[i].ok =>
       /\ i = Len(navLog)
       /\ NavigationFailed
       /\ \A j \in DOMAIN batches :
            ~(batches[j].t = navLog[i].t /\ batches[j].page = navLog[i].page)
            /\ batches[j].t <= navLog[i].t
  /\ NavigationFailed =>
       /\ ~navLog[Len(navLog)].ok
       /\ pc \in {"catch", "done"}
       /\ (pc = "done" => responses = <<500>>)

\* the second page of a traversal failed to load and the failure has been
\* reported
C12_Witness ==
  /\ NavigationFailed
  /\ pc = "done"
  /\ Len(navLog) = 2
  /\ navLog[1].ok /\ ~navLog[2].ok /\ navLog[2].page = 2

\* the elements of the document that carry the class the item selector
\* names, in document order
ClassItems(doc, tmpl) ==
  LET c == Replace(tmpl.itemSelector, ".")
  IN Matching(doc, 0, {j \in DOMAIN doc : Len(c) = 1 /\ c[1] \in doc[j].cls})

\* C13: with item method ClassName the request does not fail on account of
\* the method, and every extracted page gives one record per element that
\* carries the class.
C13_ClassItemsExtracted ==
  (tIdx >= 1 /\ template.hasItemSelector
     /\ MethodOrCss(template.itemSelectorMethod) = "class") =>
    /\ error \notin {"TypeError", "SyntaxError"}
    /\ (pc = "checkLimit" =>
         Len(batches[Len(batches)].data) = Len(ClassItems(SiteDoc(loaded), template)))

\* the least element of a non-empty set of element indices: the first in
\* document order
Earliest(S) == CHOOSE x \in S : \A y \in S : x <= y

\* template t looks its next page up with a pattern that parses
RegexNext(t) ==
  /\ HasNextSpec(body.templates[t])
  /\ body.templates[t].nextPage.method = "regex"
  /\ RegexValid(body.templates[t].nextPage.selector)

\* the elements of doc, respectively its anchors, whose text the next-page
\* pattern of template t matches
NextTextMatches(t, doc) ==
  {j \in DOMAIN doc : RegexTest(body.templates[t].nextPage.selector, doc[j].text)}
NextAnchorMatches(t, doc) == {j \in NextTextMatches(t, doc) : doc[j].tag = "a"}

\* element j of doc carries an href that is a URL
HasUrlHref(doc, j) ==
  /\ "href" \in DOMAIN doc[j].attrs
  /\ doc[j].attrs["href"] # << >>
  /\ UrlValid(doc[j].attrs["href"])

\* the k-th and the (k+1)-th navigation of template t: the later one goes to
\* the href of the first element among cands, elements of the earlier one's
\* document
FollowsFirst(t, k, cands) ==
  LET from == NavsOf(t)[k].url
      doc == SiteDoc(from)
  IN /\ cands # {}
     /\ HasUrlHref(doc, Earliest(cands))
     /\ NavsOf(t)[k + 1].url = ResolveUrl(doc[Earliest(cands)].attrs["href"], from)

\* C14 as stated: the next-page link is the first of all elements of the
\* document whose text matches.
C14_FirstOfAllElements ==
  \A t \in Started : RegexNext(t) =>
    \A k \in 1..(Len(NavsOf(t)) - 1) :
      FollowsFirst(t, k, NextTextMatches(t, SiteDoc(NavsOf(t)[k].url)))

\* the regex text fields of a template, by position
RegexTextFields(tmpl) ==
  {k \in DOMAIN FieldsOf(tmpl) :
     /\ FieldsOf(tmpl)[k].type = "text"
     /\ FieldsOf(tmpl)[k].method = "regex"
     /\ RegexValid(FieldsOf(tmpl)[k].selector)}

\* C14: a regex text field holds the text of the first element under its
\* item, in document order, whose text matches ignoring case ("" when none
\* does); a regex next-page link is the first anchor of the document, in
\* document order, whose text matches ignoring case, later matches
\* notwithstanding.
C14_RegexFirstMatch ==
  /\ \A t \in Started : RegexNext(t) =>
       \A k \in 1..(Len(NavsOf(t)) - 1) :
         FollowsFirst(t, k, NextAnchorMatches(t, SiteDoc(NavsOf(t)[k].url)))
  /\ \A b \in DOMAIN batches :
       LET tmpl == body.templates[batches[b].t]
           doc == SiteDoc(NavsOf(batches[b].t)[batches[b].page].url)
           items == ItemNodes(doc, tmpl).list
       IN \A j \in DOMAIN batches[b].data : \A k \in RegexTextFields(tmpl) :
            LET under == {e \in DOMAIN doc :
                            /\ Under(doc, e, items[j])
                            /\ RegexTest(FieldsOf(tmpl)[k].selector, doc[e].text)}
            IN batches[b].data[j][k].value =
                 IF under = {} THEN Str(<< >>) ELSE Str(doc[Earliest(under)].text)

\* a regex field took the first of two matching elements, and a regex next
\* link took the first of two matching anchors
C14_Witness ==
  /\ tIdx = 2
  /\ \E k \in RegexTextFields(body.templates[1]) :
       /\ Len(batches) > 0 /\ Len(batches[1].data) > 0
       /\ batches[1].data[1][k].value = Str(<<"Alpha", "details">>)
  /\ RegexNext(2)
  /\ Len(NavsOf(2)) = 2
  /\ Cardinality(NextAnchorMatches(2, Page1)) = 2
  /\ NavsOf(2)[2].url = Url2

\* the navigations of the request that loaded their page
OkNavs == Len(SelectSeq(navLog, LAMBDA n : n.ok))

\* C15 as stated: a traversal that fetched n pages has taken n - 1 delays
\* when it ends, none of them after its last fetch.
C15_DelayBetweenFetchesOnly ==
  /\ navLog = << >> => delays = 0
  /\ pc = "save" => delays = OkNavs - tIdx

\* C15: no delay is taken before the first fetch; every fetch that loaded
\* its page is followed by exactly one delay, taken before that page is
\* extracted, the last page of a traversal included: n pages, n delays.
C15_DelayAfterEveryFetch ==
  /\ navLog = << >> => delays = 0
  /\ delays = OkNavs - (IF pc = "sleep" THEN 1 ELSE 0)

\* a traversal of two pages has ended after two delays
C15_Witness ==
  /\ pc = "save"
  /\ tIdx = 1
  /\ Len(navLog) = 2
  /\ delays = 2

\* C16: the page counter is 1 at the first fetch of a traversal, grows by
\* one exactly on the step from the next-page check back to fetching, and
\* equals the number of navigations issued so far for the template (the one
\* in flight included); the k-th navigation of a template is that of page k.
C16_PageCounter ==
  /\ [](/\ tIdx >= 1 =>
             currentPage = Len(NavsOf(tIdx)) + (IF pc = "goto" THEN 1 ELSE 0)
        /\ \A t \in Started : \A k \in DOMAIN NavsOf(t) : NavsOf(t)[k].page = k)
  /\ [][ /\ (pc = "forTemplate" /\ pc' = "goto") => currentPage' = 1
         /\ (pc = "checkNextLink" /\ pc' = "goto") => currentPage' = currentPage + 1
         /\ ~(pc = "forTemplate" /\ pc' = "goto")
              /\ ~(pc = "checkNextLink" /\ pc' = "goto")
            => currentPage' = currentPage ]_vars

\* the third page of a traversal has been fetched
C16_Witness ==
  /\ pc = "sleep"
  /\ currentPage = 3
  /\ Len(NavsOf(tIdx)) = 3

\* the template has no limit and every page of the site holds a next link
\* with an href for it
Cyclic(tmpl) ==
  /\ tmpl.paginationLimit = 0
  /\ HasNextSpec(tmpl)
  /\ \A u \in {Url1, Url2} :
       LET r == NextLink(SiteDoc(u), u, tmpl.nextPage)
       IN /\ r.error = ""
          /\ r.exists
          /\ Truthy(r.href)
          /\ UrlValid(r.href.v)
          /\ ResolveUrl(r.href.v, u) \in {Url1, Url2}

\* C17: a traversal without limit whose every page yields a next link never
\* reaches Done: it has no file, the request never answers success, and no
\* answer at all is sent unless an exception ended the request.
C17_NoCycleDetection ==
  (tIdx >= 1 /\ Cyclic(template)) =>
    /\ pc \notin {"save", "forTemplate", "close"}
    /\ Len(EntriesOf(tIdx)) = 0
    /\ \A i \in DOMAIN responses : responses[i] # 200
    /\ (responses # << >> => error # "")
    /\ (pc \in {"catch", "done"} => error # "")

\* page 1 is being fetched a second time, as the third page of the traversal
C17_Witness ==
  /\ tIdx = 1
  /\ Cyclic(template)
  /\ pc = "sleep"
  /\ Len(navLog) = 3
  /\ navLog[1].url = Url1 /\ navLog[2].url = Url2 /\ navLog[3].url = Url1
  /\ responses = << >>

\* C18: when the handler has ended, no tab it opened is still open.
C18_TabsReleased == pc \in {"done", "rejected"} => openTabs = 0

\* C19: while the browser is not launched the request loads and extracts
\* nothing, and when its handler has ended it has one response, a failure.
C19_LaunchRaceAnswered ==
  browser # "ready" =>
    /\ navLog = << >>
    /\ batches = << >>
    /\ (pc \in {"done", "rejected"} => Len(responses) = 1 /\ responses[1] # 200)

\* the records main has taken from the first n fetches, in page order
RECURSIVE RecordsUpTo(_)
RecordsUpTo(n) ==
  IF n = 0
  THEN << >>
  ELSE RecordsUpTo(n - 1) \o
       (IF fetchLog[n].content.t = "string"
        THEN scrapeCarData(fetchLog[n].content)
        ELSE << >>)

\* C20: main fetches pages 1 to 5 once each and in order whatever comes
\* back; a failed fetch adds nothing and the loop goes on; the accumulated
\* list is the concatenation in page order of the records of the pages
\* fetched; saveToCSV is invoked once, with that list, after the fifth page.
C20_FixedTraversal ==
  /\ \A i \in DOMAIN fetchLog : fetchLog[i].page = i
  /\ Len(fetchLog) = IF sPc \in {"scrape", "wait"} THEN pageNumber ELSE pageNumber - 1
  /\ Len(fetchLog) <= LastPage
  /\ waits = IF sPc = "fetch" THEN Len(fetchLog) ELSE pageNumber - 1
  /\ scrapedData = RecordsUpTo(Len(fetchLog) - (IF sPc = "scrape" THEN 1 ELSE 0))
  /\ Len(saveCalls) = IF sPc \in {"end", "crashed"} THEN 1 ELSE 0
  /\ sPc \in {"save", "end", "crashed"} => Len(fetchLog) = LastPage
  /\ \A i \in DOMAIN saveCalls : saveCalls[i] = RecordsUpTo(LastPage)

\* the second and the fourth fetch failed, the others gave records, and the
\* list was saved
C20_Witness ==
  /\ sPc = "end"
  /\ Len(fetchLog) = LastPage
  /\ fetchLog[2].content = NoContent
  /\ fetchLog[4].content = NoContent
  /\ \A i \in {1, 3, 5} : scrapeCarData(fetchLog[i].content) # << >>
  /\ Len(saveCalls) = 1
  /\ Len(saveCalls[1]) = 3

\* C21: every record main accumulates has a string under each of its ten
\* keys, Title and Price non-empty, so saveToCSV completes and writes the
\* header and one row per record.
C21_RecordsWellFormed ==
  /\ \A i \in DOMAIN scrapedData :
       /\ \A k \in DOMAIN CsvKeys : scrapedData[i][CsvKeys[k]].t = "string"
       /\ scrapedData[i].Title.v # << >>
       /\ scrapedData[i].Price.v # << >>
  /\ sPc # "crashed"
  /\ (sPc = "end" /\ scrapedData # << >>) =>
       /\ Len(files) = 1
       /\ Len(files[1]) = Len(scrapedData) + 1

====
